---- MODULE Spec2Model ----
(***************************************************************************)
(* Dynamic incomplete Cholesky tools of MAGMA-sparse                       *)
(* (sparse-iter/control/magma_zmdynamicilu_tools.cpp): the linked-list CSR *)
(* factor LU, the candidate list LU_new, and the kernels that discover     *)
(* candidates, evaluate residuals, remove small entries and insert new     *)
(* ones.                                                                   *)
(***************************************************************************)
EXTENDS Integers, Sequences, FiniteSets, TLC

\* ------------------------------------------------------------------ bounds
N == 3              \* LU->num_rows
MaxRounds == 2      \* rounds of (candidates, residuals, rm_thrs, insert)
MaxCand == 3        \* length of a candidate list handed in by the caller
SweepThreads == 2   \* threads of the parallel for of the sweep
InsWorkers == 2     \* calls of insert under way on one factor

Rows == 0..(N - 1)
Cap == 1 + ((N * (N + 1)) \div 2)   \* slots of LU (LU->nnz), slot 0 included
Slots == 0..(Cap - 1)
LowerPos == {p \in Rows \X Rows : p[2] < p[1]}
OffVals == {-1, 2}      \* initial off-diagonal values
DiagVals == {1, 3}      \* initial diagonal values
Thresholds == {0, 1, -2, 3}

\* MAGMA_Z_ABS on the real values of the model
Abs(x) == IF x < 0 THEN -x ELSE x

VARIABLES
    LU,         \* the factor: [row, list, rowidx, col, val]
    LU_new,     \* the candidates: [nnz, rowidx, col, val]
    rm_loc,     \* locations of the deleted elements
    num_rm,     \* *num_rm of rm_thrs, handed to insert
    thrs,       \* *thrs of the last rm_thrs call
    pc,         \* the kernel the driver runs next
    rounds,     \* completed rounds
    ret,        \* this round: locals of the insert call at its return
    by,         \* this round: where LU_new comes from
    emitted,    \* this round: the writes of the candidate search, row by row
    before,     \* this round: number of linked entries when rm_thrs was called
    cand0,      \* this round: LU_new as it was handed to insert
    info,       \* the result code of the last kernel call
    wk,         \* a kernel run step by step: the locals of its workers
    count_rm,   \* a kernel run step by step: count_rm of rm_thrs
    lock,       \* a kernel run step by step: the holder of each lock taken
    wlog        \* a kernel run step by step: the stores made, by worker

vars == <<LU, LU_new, rm_loc, num_rm, thrs, pc, rounds, ret, by, emitted,
          before, cand0, info, wk, count_rm, lock, wlog>>

\* What only a kernel run step by step uses.
par == <<wk, count_rm, lock, wlog>>

\* ------------------------------------------------------- the system matrix
\* A in CSR, read through the scan "for i in A.row[row]..A.row[row+1]":
\* the value at (r,c), 0 when A has no such entry.  Tridiagonal, 4 / -1.
A_e(r, c) == IF r = c THEN 4 ELSE IF Abs(r - c) = 1 THEN -1 ELSE 0

\* ------------------------------------------------------------ chain access
\* The slots met by following list from slot s, at most fuel of them; the
\* walk stops at the terminator 0 and at anything that is no slot.
RECURSIVE ChainFrom(_, _, _)
ChainFrom(m, s, fuel) ==
    IF s = 0 \/ s \notin Slots \/ fuel = 0 THEN <<>>
    ELSE <<s>> \o ChainFrom(m, m.list[s], fuel - 1)

Chain(m, r) == ChainFrom(m, m.row[r], Cap)

RECURSIVE EndsAtZero(_, _, _)
EndsAtZero(m, s, fuel) ==
    IF s = 0 THEN TRUE
    ELSE IF s \notin Slots \/ fuel = 0 THEN FALSE
    ELSE EndsAtZero(m, m.list[s], fuel - 1)

SeqSet(s) == {s[k] : k \in 1..Len(s)}
Live(m) == UNION {SeqSet(Chain(m, r)) : r \in Rows}
Free(m) == {s \in Slots : m.list[s] = -1}
Has(m, r, c) == \E s \in SeqSet(Chain(m, r)) : m.col[s] = c

\* --------------------------------------------------------- initial factor
\* A lower triangular pattern with every diagonal, stored row by row from
\* slot 1 on with columns increasing; the slots left over are free.
Entries(P) == P \cup {<<r, r>> : r \in Rows}
SlotOf(e, E) ==
    1 + Cardinality({f \in E : f[1] < e[1] \/ (f[1] = e[1] /\ f[2] < e[2])})
EntryAt(s, E) == CHOOSE e \in E : SlotOf(e, E) = s

Build(P, off, d) ==
    LET E == Entries(P)
        used == 1..Cardinality(E)
    IN [row    |-> [r \in Rows |-> SlotOf(CHOOSE e \in E : e[1] = r /\
                        \A f \in E : f[1] = r => e[2] <= f[2], E)],
        list   |-> [s \in Slots |->
                        IF s = 0 THEN 0
                        ELSE IF s \notin used THEN -1
                        ELSE IF EntryAt(s, E)[1] = EntryAt(s, E)[2] THEN 0
                        ELSE s + 1],
        rowidx |-> [s \in Slots |-> IF s \in used THEN EntryAt(s, E)[1] ELSE 0],
        col    |-> [s \in Slots |-> IF s \in used THEN EntryAt(s, E)[2] ELSE 0],
        val    |-> [s \in Slots |->
                        IF s \notin used THEN 0
                        ELSE IF EntryAt(s, E)[1] = EntryAt(s, E)[2] THEN d
                        ELSE off[EntryAt(s, E)]]]

NoCand == [nnz |-> 0, rowidx |-> <<>>, col |-> <<>>, val |-> <<>>]
NoRet == [called |-> FALSE, info |-> 0, num_insert |-> 0, i |-> 0,
          skipped |-> FALSE, locs |-> <<>>, steps |-> <<>>]

Init ==
    /\ \E P \in SUBSET LowerPos : \E off \in [P -> OffVals] : \E d \in DiagVals :
            LU = Build(P, off, d)
    /\ LU_new = NoCand
    /\ rm_loc = [k \in Slots |-> 0]
    /\ num_rm = 0
    /\ thrs = 0
    /\ pc = "idle"
    /\ rounds = 0
    /\ ret = NoRet
    /\ by = "none"
    /\ emitted = <<>>
    /\ before = 0
    /\ cand0 = NoCand
    /\ info = 0
    /\ wk = <<>>
    /\ count_rm = 0
    /\ lock = {}
    /\ wlog = {}

\* ------------------------------------------------ magma_zmdynamicilu_rm_thrs
\* rm_thrs_body that compares with *thrs itself, not with its magnitude
rm_thrs_body_noabs(r, t, st) ==
    LET m == st.m
        i == st.i
        nexti == st.nexti
    IN IF Abs(m.val[i]) < t
       THEN LET m1 == [m EXCEPT !.val[i] = 0, !.list[i] = -1]
                out1 == Append(st.out, i)
            IN IF m1.row[r] = i
               THEN LET m2 == [m1 EXCEPT !.row[r] = nexti]
                    IN [m |-> m2, out |-> out1, lasti |-> i, i |-> nexti,
                        nexti |-> m2.list[nexti]]
               ELSE LET m2 == [m1 EXCEPT !.list[st.lasti] = nexti]
                    IN [m |-> m2, out |-> out1, lasti |-> st.lasti, i |-> nexti,
                        nexti |-> m2.list[nexti]]
       ELSE [m |-> m, out |-> st.out, lasti |-> i, i |-> nexti,
             nexti |-> m.list[nexti]]

\* rm_thrs_body that unlinks the element but does not mark it free
rm_thrs_body_nofree(r, t, st) ==
    LET m == st.m
        i == st.i
        nexti == st.nexti
    IN IF Abs(m.val[i]) < Abs(t)
       THEN LET m1 == [m EXCEPT !.val[i] = 0]
                out1 == Append(st.out, i)
            IN IF m1.row[r] = i
               THEN LET m2 == [m1 EXCEPT !.row[r] = nexti]
                    IN [m |-> m2, out |-> out1, lasti |-> i, i |-> nexti,
                        nexti |-> m2.list[nexti]]
               ELSE LET m2 == [m1 EXCEPT !.list[st.lasti] = nexti]
                    IN [m |-> m2, out |-> out1, lasti |-> st.lasti, i |-> nexti,
                        nexti |-> m2.list[nexti]]
       ELSE [m |-> m, out |-> st.out, lasti |-> i, i |-> nexti,
             nexti |-> m.list[nexti]]

\* One pass of the body of "while( nexti!=0 )" for row r.  st holds the
\* factor m, the worker's i, lasti, nexti and, in out, the slots it handed
\* to rm_loc so far.
rm_thrs_body(r, t, st) ==
    LET m == st.m
        i == st.i
        nexti == st.nexti
    IN IF Abs(m.val[i]) < Abs(t)
       THEN LET m1 == [m EXCEPT !.val[i] = 0, !.list[i] = -1]
                out1 == Append(st.out, i)
            IN IF m1.row[r] = i
               THEN LET m2 == [m1 EXCEPT !.row[r] = nexti]
                    IN [m |-> m2, out |-> out1, lasti |-> i, i |-> nexti,
                        nexti |-> m2.list[nexti]]
               ELSE LET m2 == [m1 EXCEPT !.list[st.lasti] = nexti]
                    IN [m |-> m2, out |-> out1, lasti |-> st.lasti, i |-> nexti,
                        nexti |-> m2.list[nexti]]
       ELSE [m |-> m, out |-> st.out, lasti |-> i, i |-> nexti,
             nexti |-> m.list[nexti]]

\* The loop "while( nexti!=0 )": it runs on while nexti is a slot other
\* than the terminator (fuel bounds the walk by the number of slots).
RECURSIVE rm_thrs_while(_, _, _, _)
RECURSIVE rm_thrs_while_i(_, _, _, _)

\* rm_thrs_while with the loop written "while( i!=0 )"
rm_thrs_while_i(r, t, st, fuel) ==
    IF st.i = 0 \/ st.nexti \notin Slots \/ st.i \notin Slots \/ fuel = 0
    THEN st
    ELSE rm_thrs_while(r, t, rm_thrs_body(r, t, st), fuel - 1)

rm_thrs_while(r, t, st, fuel) ==
    IF st.nexti = 0 \/ st.nexti \notin Slots \/ st.i \notin Slots \/ fuel = 0
    THEN st
    ELSE rm_thrs_while(r, t, rm_thrs_body(r, t, st), fuel - 1)

\* The iteration of the parallel for over row r, on factor m.
rm_thrs_row(m, r, t) ==
    LET i == m.row[r]
    IN rm_thrs_while(r, t,
           [m |-> m, out |-> <<>>, lasti |-> i, i |-> i, nexti |-> m.list[i]],
           Cap)

\* Every row's iteration: the rows write disjoint slots of row, list and
\* val, so the factor left is the one of the rows taken one after another;
\* outs[r] is the sequence of slots row r appended to rm_loc.
RECURSIVE rm_thrs_rows(_, _, _, _)
rm_thrs_rows(m, r, t, outs) ==
    IF r = N THEN [m |-> m, outs |-> outs]
    ELSE LET st == rm_thrs_row(m, r, t)
         IN rm_thrs_rows(st.m, r + 1, t, [outs EXCEPT ![r] = st.out])

\* The orders in which the workers can take the counter lock: every
\* interleaving of the rows' own sequences of appends.
RECURSIVE Interleavings(_)
Interleavings(outs) ==
    IF \A r \in Rows : outs[r] = <<>> THEN {<<>>}
    ELSE UNION {{<<Head(outs[r])>> \o s :
                    s \in Interleavings([outs EXCEPT ![r] = Tail(outs[r])])} :
                r \in {q \in Rows : outs[q] # <<>>}}

LiveCount(m) == Cardinality(Live(m))

\* rm_loc_fill that leaves rm_loc as the call found it
rm_loc_fill_keep(old, order) == old

\* "count_rm = 0" and then "rm_loc[ count_rm ] = i; count_rm++;" for every
\* slot freed: the first entries of rm_loc are written anew, the others
\* keep what earlier calls left in them.
rm_loc_fill(old, order) ==
    [k \in Slots |-> IF k < Len(order) THEN order[k + 1] ELSE old[k]]

magma_zmdynamicilu_rm_thrs(t) ==
    /\ \/ pc = "res" /\ t \in Thresholds
       \/ pc = "thr" /\ t = thrs
    /\ LET res == rm_thrs_rows(LU, 0, t, [r \in Rows |-> <<>>])
       IN /\ LU' = res.m
          /\ \E order \in Interleavings(res.outs) :
                /\ rm_loc' = rm_loc_fill(rm_loc, order)
                /\ num_rm' = Len(order)
    /\ before' = LiveCount(LU)
    /\ thrs' = t
    /\ pc' = "rm"
    /\ info' = 0
    /\ UNCHANGED <<LU_new, rounds, ret, by, emitted, cand0>>
    /\ UNCHANGED par

\* ------------------------------------------------------------ result codes
\* The result code a failing allocation hands to CHECK.
MAGMA_ERR_HOST_ALLOC == -112

\* ---------------------------------------------------- magma_zmorderstatistics
\* The selector called by insert on LU_new->val alone: the arrangements of
\* val whose first k entries are k entries of largest magnitude.
magma_zmorderstatistics(val, k) ==
    {p \in {[x \in 1..Len(val) |-> val[f[x]]] : f \in Permutations(1..Len(val))} :
        \A a \in 1..Len(val) : \A b \in 1..Len(val) :
            (a <= k /\ k < b) => Abs(p[a]) >= Abs(p[b])}

\* ----------------------------------------------- magma_zmdynamicilu_set_thrs
\* *element of the selector called for the smallest: the values of val
\* whose magnitude is the k-th smallest.
order_element(val, k) ==
    {val[x] : x \in {x \in 1..Len(val) :
        /\ Cardinality({y \in 1..Len(val) : Abs(val[y]) < Abs(val[x])}) < k
        /\ k <= Cardinality({y \in 1..Len(val) : Abs(val[y]) <= Abs(val[x])})}}

\* The selector runs on a copy of LU->val, all LU->nnz slots of it; when
\* the allocation of the copy or the selector fails, CHECK leaves for
\* cleanup before *thrs is set.
magma_zmdynamicilu_set_thrs ==
    /\ pc = "res"
    /\ \E k \in 1..MaxCand :
          LET val == [x \in 1..Cap |-> LU.val[x - 1]]
          IN \/ /\ thrs' \in order_element(val, k)
                /\ info' = 0
                /\ pc' = "thr"
             \/ /\ thrs' = thrs
                /\ info' = MAGMA_ERR_HOST_ALLOC
                /\ pc' = "fault"
    /\ UNCHANGED <<LU, LU_new, rm_loc, num_rm, rounds, ret, by, emitted, before,
                   cand0>>
    /\ UNCHANGED par

\* -------------------------------------------------- magma_zmdynamicic_insert
\* insert_splice that leaves list[loc] as the removal left it
insert_splice_nolink(m, j, jn, loc, new_row, new_col) ==
    [m EXCEPT !.list[j] = loc,
              !.rowidx[loc] = new_row, !.col[loc] = new_col, !.val[loc] = 0]

\* "LU->list[j]=loc; LU->list[loc]=jn; ..." of the else branch
insert_splice(m, j, jn, loc, new_row, new_col) ==
    [m EXCEPT !.list = [[@ EXCEPT ![j] = loc] EXCEPT ![loc] = jn],
              !.rowidx[loc] = new_row, !.col[loc] = new_col, !.val[loc] = 0]

\* "LU->row[ new_row ] = loc; LU->list[ loc ] = old_rowstart; ..."
insert_rowstart(m, old_rowstart, loc, new_row, new_col) ==
    [m EXCEPT !.row[new_row] = loc, !.list[loc] = old_rowstart,
              !.rowidx[loc] = new_row, !.col[loc] = new_col, !.val[loc] = 0]

\* The loop "while( j!=0 )" over the chain of new_row; ins is 1 when the
\* element was linked.
RECURSIVE insert_walk(_, _, _, _, _, _, _)
RECURSIVE insert_walk_nodup(_, _, _, _, _, _, _)

\* insert_walk without the test "LU->col[jn]==new_col"
insert_walk_nodup(m, j, jn, loc, new_row, new_col, fuel) ==
    IF j = 0 \/ jn \notin Slots \/ fuel = 0 THEN [m |-> m, ins |-> 0]
    ELSE IF m.col[jn] > new_col
         THEN [m |-> insert_splice(m, j, jn, loc, new_row, new_col), ins |-> 1]
    ELSE insert_walk_nodup(m, jn, m.list[jn], loc, new_row, new_col, fuel - 1)

insert_walk(m, j, jn, loc, new_row, new_col, fuel) ==
    IF j = 0 \/ jn \notin Slots \/ fuel = 0 THEN [m |-> m, ins |-> 0]
    ELSE IF m.col[jn] = new_col THEN [m |-> m, ins |-> 0]
    ELSE IF m.col[jn] > new_col
         THEN [m |-> insert_splice(m, j, jn, loc, new_row, new_col), ins |-> 1]
    ELSE insert_walk(m, jn, m.list[jn], loc, new_row, new_col, fuel - 1)

\* insert_one that counts a duplicate of the row's first entry as inserted
insert_one_countdup(m, loc, new_row, new_col) ==
    LET old_rowstart == m.row[new_row]
    IN IF new_col < m.col[old_rowstart]
       THEN [m |-> insert_rowstart(m, old_rowstart, loc, new_row, new_col),
             ins |-> 1]
       ELSE IF new_col = m.col[old_rowstart] THEN [m |-> m, ins |-> 1]
       ELSE insert_walk(m, old_rowstart, m.list[old_rowstart], loc, new_row,
                        new_col, Cap)

\* insert_one without the test for a duplicate of the row's first entry
insert_one_nodup(m, loc, new_row, new_col) ==
    LET old_rowstart == m.row[new_row]
    IN IF new_col <= m.col[old_rowstart]
       THEN [m |-> insert_rowstart(m, old_rowstart, loc, new_row, new_col),
             ins |-> 1]
       ELSE insert_walk(m, old_rowstart, m.list[old_rowstart], loc, new_row,
                        new_col, Cap)

\* What stands between omp_set_lock and omp_unset_lock, with the
\* old_rowstart read before the lock was taken.
insert_locked(m, old_rowstart, loc, new_row, new_col) ==
    IF new_col < m.col[old_rowstart]
    THEN [m |-> insert_rowstart(m, old_rowstart, loc, new_row, new_col),
          ins |-> 1]
    ELSE IF new_col = m.col[old_rowstart] THEN [m |-> m, ins |-> 0]
    ELSE insert_walk(m, old_rowstart, m.list[old_rowstart], loc, new_row,
                     new_col, Cap)

\* One candidate: the body of "while( num_insert < num_rm )" after the
\* bound check on i.
insert_one(m, loc, new_row, new_col) ==
    insert_locked(m, m.row[new_row], loc, new_row, new_col)

\* insert_while taking its target from rm_loc[ i ], as the printf left in
\* the loop prints it
RECURSIVE insert_while_loc_i(_, _, _, _)
insert_while_loc_i(cand, locs, n_rm, st) ==
    IF ~(st.num_insert < n_rm) THEN st
    ELSE IF st.i >= cand.nnz THEN st
    ELSE LET loc == locs[st.i]
             new_row == cand.rowidx[st.i + 1]
             new_col == cand.col[st.i + 1]
             one == insert_one(st.m, loc, new_row, new_col)
         IN insert_while_loc_i(cand, locs, n_rm,
                [m |-> one.m, i |-> st.i + 1,
                 num_insert |-> st.num_insert + one.ins,
                 locs |-> IF one.ins = 1 THEN Append(st.locs, loc) ELSE st.locs,
                 steps |-> Append(st.steps,
                              [at |-> st.i, loc |-> loc, ins |-> one.ins,
                               had |-> Has(st.m, new_row, new_col),
                               same |-> (one.m = st.m)])])

\* insert_while with the loop written "while( num_insert <= num_rm )"
RECURSIVE insert_while_le(_, _, _, _)
insert_while_le(cand, locs, n_rm, st) ==
    IF ~(st.num_insert <= n_rm) THEN st
    ELSE IF st.i >= cand.nnz THEN st
    ELSE LET loc == locs[st.num_insert]
             new_row == cand.rowidx[st.i + 1]
             new_col == cand.col[st.i + 1]
             one == insert_one(st.m, loc, new_row, new_col)
         IN insert_while_le(cand, locs, n_rm,
                [m |-> one.m, i |-> st.i + 1,
                 num_insert |-> st.num_insert + one.ins,
                 locs |-> IF one.ins = 1 THEN Append(st.locs, loc) ELSE st.locs,
                 steps |-> Append(st.steps,
                              [at |-> st.num_insert, loc |-> loc, ins |-> one.ins,
                               had |-> Has(st.m, new_row, new_col),
                               same |-> (one.m = st.m)])])

\* The loop "while( num_insert < num_rm )"; st holds the factor, the
\* cursors i and num_insert and the slots of rm_loc written to.  steps
\* keeps, for every candidate the loop took, the index of rm_loc it read
\* (at), the slot read (loc), whether the candidate was linked (ins),
\* whether its position was in the row before (had) and whether the factor
\* was left as it was (same).
RECURSIVE insert_while(_, _, _, _)
insert_while(cand, locs, n_rm, st) ==
    IF ~(st.num_insert < n_rm) THEN st
    ELSE IF st.i >= cand.nnz THEN st
    ELSE LET loc == locs[st.num_insert]
             new_row == cand.rowidx[st.i + 1]
             new_col == cand.col[st.i + 1]
             one == insert_one(st.m, loc, new_row, new_col)
         IN insert_while(cand, locs, n_rm,
                [m |-> one.m, i |-> st.i + 1,
                 num_insert |-> st.num_insert + one.ins,
                 locs |-> IF one.ins = 1 THEN Append(st.locs, loc) ELSE st.locs,
                 steps |-> Append(st.steps,
                              [at |-> st.num_insert, loc |-> loc, ins |-> one.ins,
                               had |-> Has(st.m, new_row, new_col),
                               same |-> (one.m = st.m)])])

\* insert_skip that lets every call through to the graft
insert_skip_never(n_rm, nnz) == FALSE

\* "if(num_rm>=LU_new->nnz){ goto cleanup; }"
insert_skip(n_rm, nnz) == n_rm >= nnz

magma_zmdynamicic_insert ==
    /\ pc = "rm"
    /\ cand0' = LU_new
    /\ IF insert_skip(num_rm, LU_new.nnz)
       THEN /\ ret' = [NoRet EXCEPT !.called = TRUE, !.skipped = TRUE]
            /\ UNCHANGED <<LU, LU_new>>
            /\ pc' = "idle"
       ELSE \/ \* CHECK( magma_zmorderstatistics( ... ) ) leaves for cleanup
               /\ ret' = [NoRet EXCEPT !.called = TRUE,
                                       !.info = MAGMA_ERR_HOST_ALLOC]
               /\ UNCHANGED <<LU, LU_new>>
               /\ pc' = "fault"
            \/ \E ranked \in magma_zmorderstatistics(LU_new.val, num_rm) :
               LET cand == [LU_new EXCEPT !.val = ranked]
                   st == insert_while(cand, rm_loc, num_rm,
                            [m |-> LU, i |-> 0, num_insert |-> 0, locs |-> <<>>,
                             steps |-> <<>>])
               IN /\ LU_new' = cand
                  /\ LU' = st.m
                  /\ ret' = [called |-> TRUE, info |-> 0,
                             num_insert |-> st.num_insert, i |-> st.i,
                             skipped |-> FALSE, locs |-> st.locs,
                             steps |-> st.steps]
                  /\ pc' = "idle"
    /\ info' = ret'.info
    /\ rounds' = rounds + 1
    /\ UNCHANGED <<rm_loc, num_rm, thrs, by, emitted, before>>
    /\ UNCHANGED par

\* --------------------------------------------- magma_zmdynamicic_candidates_n
\* cand_n_scan that never finds checkelement
cand_n_scan_blind(m, check, checkelement, exist, fuel) == exist

\* The scan "while( check != 0 )" of the count pass: the whole chain is
\* read and exist is set when a slot carries checkelement.
RECURSIVE cand_n_scan(_, _, _, _, _)
cand_n_scan(m, check, checkelement, exist, fuel) ==
    IF check = 0 \/ check \notin Slots \/ fuel = 0 THEN exist
    ELSE cand_n_scan(m, m.list[check], checkelement,
                     IF m.col[check] = checkelement THEN 1 ELSE exist, fuel - 1)

\* cand_n_find comparing LU.rowidx[check], not LU.col[check]
RECURSIVE cand_n_find_rowidx(_, _, _, _)
cand_n_find_rowidx(m, check, checkelement, fuel) ==
    IF check = 0 \/ check \notin Slots \/ fuel = 0 THEN 0
    ELSE IF m.rowidx[check] = checkelement THEN 1
    ELSE cand_n_find_rowidx(m, m.list[check], checkelement, fuel - 1)

\* The same scan in the emit pass, which leaves at the first hit.
RECURSIVE cand_n_find(_, _, _, _)
cand_n_find(m, check, checkelement, fuel) ==
    IF check = 0 \/ check \notin Slots \/ fuel = 0 THEN 0
    ELSE IF m.col[check] = checkelement THEN 1
    ELSE cand_n_find(m, m.list[check], checkelement, fuel - 1)

Max2(a, b) == IF a >= b THEN a ELSE b
Min2(a, b) == IF a <= b THEN a ELSE b

\* The inner loop "while( lcol2 != 0 )" of the count pass for one lcol1:
\* the number of pairs counted for it.
RECURSIVE cand_n_count_inner(_, _, _, _)
cand_n_count_inner(m, lcol1, lcol2, fuel) ==
    IF lcol2 = 0 \/ lcol2 \notin Slots \/ fuel = 0 THEN 0
    ELSE LET col1 == m.col[lcol1]
             col2 == m.col[lcol2]
         IN IF col2 >= col1
            THEN cand_n_count_inner(m, lcol1, m.list[lcol2], fuel - 1)
            ELSE LET checkrow == Max2(col1, col2)
                     checkelement == Min2(col1, col2)
                     exist == cand_n_scan(m, m.row[checkrow], checkelement, 0, Cap)
                 IN (IF exist = 0 THEN 1 ELSE 0)
                    + cand_n_count_inner(m, lcol1, m.list[lcol2], fuel - 1)

\* The outer loop "while( lcol1 != 0 )" of the count pass: numadd[row+1].
RECURSIVE cand_n_count(_, _, _, _)
cand_n_count(m, row, lcol1, fuel) ==
    IF lcol1 = 0 \/ lcol1 \notin Slots \/ fuel = 0 THEN 0
    ELSE IF m.col[lcol1] = row THEN cand_n_count(m, row, m.list[lcol1], fuel - 1)
    ELSE cand_n_count_inner(m, lcol1, m.row[row], Cap)
         + cand_n_count(m, row, m.list[lcol1], fuel - 1)

\* The inner loop of the emit pass: the pairs (rowidx, col) written for one
\* lcol1, in the order they are written.
RECURSIVE cand_n_emit_inner(_, _, _, _)
RECURSIVE cand_n_emit_inner_swap(_, _, _, _)

\* cand_n_emit_inner writing checkelement to rowidx and checkrow to col
cand_n_emit_inner_swap(m, lcol1, lcol2, fuel) ==
    IF lcol2 = 0 \/ lcol2 \notin Slots \/ fuel = 0 THEN <<>>
    ELSE LET col1 == m.col[lcol1]
             col2 == m.col[lcol2]
         IN IF col2 >= col1
            THEN cand_n_emit_inner_swap(m, lcol1, m.list[lcol2], fuel - 1)
            ELSE LET checkrow == Max2(col2, col1)
                     checkelement == Min2(col1, col2)
                     exist == cand_n_find(m, m.row[checkrow], checkelement, Cap)
                 IN (IF exist = 0
                     THEN <<[rowidx |-> checkelement, col |-> checkrow]>>
                     ELSE <<>>)
                    \o cand_n_emit_inner_swap(m, lcol1, m.list[lcol2], fuel - 1)

cand_n_emit_inner(m, lcol1, lcol2, fuel) ==
    IF lcol2 = 0 \/ lcol2 \notin Slots \/ fuel = 0 THEN <<>>
    ELSE LET col1 == m.col[lcol1]
             col2 == m.col[lcol2]
         IN IF col2 >= col1
            THEN cand_n_emit_inner(m, lcol1, m.list[lcol2], fuel - 1)
            ELSE LET checkrow == Max2(col2, col1)
                     checkelement == Min2(col1, col2)
                     exist == cand_n_find(m, m.row[checkrow], checkelement, Cap)
                 IN (IF exist = 0
                     THEN <<[rowidx |-> checkrow, col |-> checkelement]>>
                     ELSE <<>>)
                    \o cand_n_emit_inner(m, lcol1, m.list[lcol2], fuel - 1)

\* The outer loop of the emit pass for one row: its writes, ladd = 0, 1, ..
RECURSIVE cand_n_emit(_, _, _, _)
cand_n_emit(m, row, lcol1, fuel) ==
    IF lcol1 = 0 \/ lcol1 \notin Slots \/ fuel = 0 THEN <<>>
    ELSE IF m.col[lcol1] = row THEN cand_n_emit(m, row, m.list[lcol1], fuel - 1)
    ELSE cand_n_emit_inner(m, lcol1, m.row[row], Cap)
         \o cand_n_emit(m, row, m.list[lcol1], fuel - 1)

\* "for i in 0..num_rows: LU_new->nnz += numadd[i]; numadd[i] = LU_new->nnz"
\* over numadd[0] = 0, numadd[row+1] = count of row.
RECURSIVE SumTo(_, _)
SumTo(f, i) == IF i < 0 THEN 0 ELSE f[i] + SumTo(f, i - 1)
cand_n_numadd(m) ==
    LET counted == [i \in 0..N |->
                      IF i = 0 THEN 0 ELSE cand_n_count(m, i - 1, m.row[i - 1], Cap)]
    IN [i \in 0..N |-> SumTo(counted, i)]

\* The writes of the emit pass, row after row: from is the row whose
\* iteration wrote, at the index numadd[row] + ladd written.
RECURSIVE cand_n_writes(_, _, _)
cand_n_writes(m, numadd, row) ==
    IF row = N THEN <<>>
    ELSE LET w == cand_n_emit(m, row, m.row[row], Cap)
         IN [l \in 1..Len(w) |->
                [from |-> row, rowidx |-> w[l].rowidx, col |-> w[l].col,
                 at |-> numadd[row] + (l - 1)]]
            \o cand_n_writes(m, numadd, row + 1)

\* The arrays of nnz entries the writes leave; every index of 0..nnz-1 is
\* written by exactly one of them when the passes agree.
Written(ws, nnz) ==
    /\ \A k \in 0..(nnz - 1) : \E x \in 1..Len(ws) : ws[x].at = k
    /\ \A x \in 1..Len(ws) : ws[x].at \in 0..(nnz - 1)
    /\ \A x \in 1..Len(ws) : \A y \in 1..Len(ws) : ws[x].at = ws[y].at => x = y

Filled(ws, nnz) ==
    LET w(k) == ws[CHOOSE x \in 1..Len(ws) : ws[x].at = k - 1]
    IN [nnz    |-> nnz,
        rowidx |-> [k \in 1..nnz |-> w(k).rowidx],
        col    |-> [k \in 1..nnz |-> w(k).col],
        val    |-> [k \in 1..nnz |-> 0]]

\* The allocations of a candidate search, in the order they are made.
AllocPoints == {"numadd", "val", "rowidx", "col"}

\* The candidate set a search leaves when the allocation named by at fails
\* and CHECK leaves for cleanup: LU_new->nnz is set to 0 before numadd is
\* allocated and to the total before val, rowidx and col are.  An array
\* whose allocation failed has no storage and one allocated before it was
\* not written yet: neither holds a defined entry.
alloc_fail(cand, total, at) ==
    IF at = "numadd" THEN [cand EXCEPT !.nnz = 0]
    ELSE IF at = "val" THEN [cand EXCEPT !.nnz = total, !.val = <<>>]
    ELSE IF at = "rowidx"
         THEN [cand EXCEPT !.nnz = total, !.val = <<>>, !.rowidx = <<>>]
    ELSE [cand EXCEPT !.nnz = total, !.val = <<>>, !.rowidx = <<>>,
                      !.col = <<>>]

magma_zmdynamicic_candidates_n ==
    /\ pc = "idle"
    /\ rounds < MaxRounds
    /\ LET numadd == cand_n_numadd(LU)
           ws == cand_n_writes(LU, numadd, 0)
       IN \/ /\ emitted' = ws
             /\ info' = 0
             /\ IF Written(ws, numadd[N])
                THEN LU_new' = Filled(ws, numadd[N]) /\ pc' = "cand"
                ELSE LU_new' = [NoCand EXCEPT !.nnz = numadd[N]] /\ pc' = "fault"
          \/ \E at \in AllocPoints :
                /\ LU_new' = alloc_fail(LU_new, numadd[N], at)
                /\ emitted' = <<>>
                /\ info' = MAGMA_ERR_HOST_ALLOC
                /\ pc' = "fault"
    /\ by' = "candidates_n"
    /\ ret' = NoRet /\ before' = 0 /\ cand0' = NoCand
    /\ UNCHANGED <<LU, rm_loc, num_rm, thrs, rounds>>
    /\ UNCHANGED par

\* ----------------------------------------------- magma_zmdynamicic_candidates
\* The scan "while( checkcol <= checkelement && check!=0 )" of both passes
\* (the count pass reads checkcol as the emit pass declares it).
RECURSIVE cand_find(_, _, _, _)
cand_find(m, check, checkelement, fuel) ==
    IF ~(check \in Slots /\ m.col[check] <= checkelement /\ check # 0)
       \/ fuel = 0
    THEN 0
    ELSE IF m.col[check] = checkelement THEN 1
    ELSE cand_find(m, m.list[check], checkelement, fuel - 1)

\* The inner loop "while( lcol2 != lcol1 )": the pairs found missing.
RECURSIVE cand_emit_inner(_, _, _, _)
cand_emit_inner(m, lcol1, lcol2, fuel) ==
    IF lcol2 = lcol1 \/ lcol2 \notin Slots \/ fuel = 0 THEN <<>>
    ELSE LET col1 == m.col[lcol1]
             col2 == m.col[lcol2]
             exist == cand_find(m, m.row[col1], col2, Cap)
         IN (IF exist = 0 THEN <<[rowidx |-> col1, col |-> col2]>> ELSE <<>>)
            \o cand_emit_inner(m, lcol1, m.list[lcol2], fuel - 1)

\* The outer loop "while( LU.list[lcol1] != 0 )" for one row.
RECURSIVE cand_emit(_, _, _, _)
cand_emit(m, row, lcol1, fuel) ==
    IF lcol1 \notin Slots \/ m.list[lcol1] = 0 \/ fuel = 0 THEN <<>>
    ELSE cand_emit_inner(m, lcol1, m.row[row], Cap)
         \o cand_emit(m, row, m.list[lcol1], fuel - 1)

\* The count pass runs the same two loops and adds one per missing pair.
cand_count(m, row) == Len(cand_emit(m, row, m.row[row], Cap))

\* The accumulation under the counter lock, the iteration i adding
\* numadd[i+1] and storing the total back; turn[i] is the turn at which
\* iteration i gets the lock (the loop variable is read for "row").
cand_numadd(m, turn) ==
    [k \in 0..N |->
        IF k = 0 THEN 0
        ELSE LET i == k - 1
                 S == {j \in Rows : turn[j] <= turn[i]}
                 cnt == [j \in Rows |-> IF j \in S THEN cand_count(m, j) ELSE 0]
             IN SumTo(cnt, N - 1)]

cand_nnz(m) == SumTo([j \in Rows |-> cand_count(m, j)], N - 1)

RECURSIVE cand_writes(_, _, _)
cand_writes(m, numadd, row) ==
    IF row = N THEN <<>>
    ELSE LET w == cand_emit(m, row, m.row[row], Cap)
         IN [l \in 1..Len(w) |->
                [from |-> row, rowidx |-> w[l].rowidx, col |-> w[l].col,
                 at |-> numadd[row] + (l - 1)]]
            \o cand_writes(m, numadd, row + 1)

\* A search that wrote outside LU_new or left entries of it unwritten has
\* no defined result: the round ends there (pc = "fault").
magma_zmdynamicic_candidates ==
    /\ pc = "idle"
    /\ rounds < MaxRounds
    /\ \/ \E turn \in Permutations(Rows) :
            LET numadd == cand_numadd(LU, turn)
                ws == cand_writes(LU, numadd, 0)
            IN /\ emitted' = ws
               /\ info' = 0
               /\ IF Written(ws, cand_nnz(LU))
                  THEN LU_new' = Filled(ws, cand_nnz(LU)) /\ pc' = "cand"
                  ELSE LU_new' = [NoCand EXCEPT !.nnz = cand_nnz(LU)] /\ pc' = "fault"
       \/ \E at \in AllocPoints :
            /\ LU_new' = alloc_fail(LU_new, cand_nnz(LU), at)
            /\ emitted' = <<>>
            /\ info' = MAGMA_ERR_HOST_ALLOC
            /\ pc' = "fault"
    /\ by' = "candidates"
    /\ ret' = NoRet /\ before' = 0 /\ cand0' = NoCand
    /\ UNCHANGED <<LU, rm_loc, num_rm, thrs, rounds>>
    /\ UNCHANGED par

\* The caller hands insert a candidate list of its own: any list of
\* positions below the diagonal.
caller_candidates ==
    /\ pc = "idle"
    /\ rounds < MaxRounds
    /\ \E n \in 0..MaxCand : \E ps \in [1..n -> LowerPos] :
          LU_new' = [nnz    |-> n,
                     rowidx |-> [k \in 1..n |-> ps[k][1]],
                     col    |-> [k \in 1..n |-> ps[k][2]],
                     val    |-> [k \in 1..n |-> 0]]
    /\ emitted' = <<>>
    /\ by' = "caller"
    /\ pc' = "cand"
    /\ ret' = NoRet /\ before' = 0 /\ cand0' = NoCand
    /\ UNCHANGED <<LU, rm_loc, num_rm, thrs, rounds, info>>
    /\ UNCHANGED par

\* ------------------------------------------------ magma_zmdynamicic_residuals
\* res_walk adding LU.val[i] * LU.val[j] in every pass, the columns equal
\* or not
RECURSIVE res_walk_all(_, _, _, _, _)
res_walk_all(m, i, j, sum, fuel) ==
    LET icol == m.col[i]
        jcol == m.col[j]
        i1 == IF icol = jcol \/ icol < jcol THEN m.list[i] ELSE i
        j1 == IF icol = jcol \/ ~(icol < jcol) THEN m.list[j] ELSE j
        sum1 == sum + m.val[i] * m.val[j]
    IN IF i1 # 0 /\ j1 # 0 /\ i1 \in Slots /\ j1 \in Slots /\ fuel > 0
       THEN res_walk_all(m, i1, j1, sum1, fuel - 1)
       ELSE sum1

\* The loop "do{ ... }while( i!=0 && j!=0 )": the sum of the products met.
RECURSIVE res_walk(_, _, _, _, _)
res_walk(m, i, j, sum, fuel) ==
    LET icol == m.col[i]
        jcol == m.col[j]
        i1 == IF icol = jcol \/ icol < jcol THEN m.list[i] ELSE i
        j1 == IF icol = jcol \/ ~(icol < jcol) THEN m.list[j] ELSE j
        sum1 == IF icol = jcol THEN sum + m.val[i] * m.val[j] ELSE sum
    IN IF i1 # 0 /\ j1 # 0 /\ i1 \in Slots /\ j1 \in Slots /\ fuel > 0
       THEN res_walk(m, i1, j1, sum1, fuel - 1)
       ELSE sum1

residual(m, row, col) == A_e(row, col) - res_walk(m, m.row[row], m.row[col], 0, 2 * Cap)

\* residuals_write storing to LU->val[ e ], as the sweep does
residuals_write_lu(m, cand) ==
    [LU     |-> [m EXCEPT !.val =
                    [s \in Slots |->
                        IF s < cand.nnz
                        THEN residual(m, cand.rowidx[s + 1], cand.col[s + 1])
                        ELSE m.val[s]]],
     LU_new |-> cand]

\* The parallel for over e: "LU_new->val[ e ] = ( A_e - sum )" is the one
\* store of an iteration; the factor and the candidates' rowidx and col
\* are only read.
residuals_write(m, cand) ==
    [LU     |-> m,
     LU_new |-> [cand EXCEPT !.val =
                    [e \in 1..cand.nnz |->
                        residual(m, cand.rowidx[e], cand.col[e])]]]

magma_zmdynamicic_residuals ==
    /\ pc = "cand"
    /\ LU' = residuals_write(LU, LU_new).LU
    /\ LU_new' = residuals_write(LU, LU_new).LU_new
    /\ pc' = "res"
    /\ info' = 0
    /\ UNCHANGED <<rm_loc, num_rm, thrs, rounds, ret, by, emitted, before,
                   cand0>>
    /\ UNCHANGED par

Next ==
    \/ magma_zmdynamicic_candidates_n
    \/ magma_zmdynamicic_candidates
    \/ caller_candidates
    \/ magma_zmdynamicic_residuals
    \/ magma_zmdynamicilu_set_thrs
    \/ \E t \in Thresholds \cup {thrs} : magma_zmdynamicilu_rm_thrs(t)
    \/ magma_zmdynamicic_insert

Spec == Init /\ [][Next]_vars

\* =================================== magma_zmdynamicilu_rm_thrs, step by step
\* The parallel for of rm_thrs with one worker per row r, each statement of
\* the loop body a step of its own.  wk[r] holds the worker's i, lasti and
\* nexti; lock holds <<"counter", r>> while r is between omp_set_lock and
\* omp_unset_lock; wlog takes <<r, array, index, value>> for every store to
\* the factor.
RmIdle == [pc |-> "start", i |-> 0, lasti |-> 0, nexti |-> 0]

InitRm ==
    /\ \E P \in SUBSET LowerPos : \E off \in [P -> OffVals] : \E d \in DiagVals :
            LU = Build(P, off, d)
    /\ thrs \in Thresholds
    /\ rm_loc = [k \in Slots |-> 0]
    /\ num_rm = 0
    /\ count_rm = 0
    /\ before = LiveCount(LU)
    /\ pc = "rm_thrs"
    /\ wk = [r \in Rows |-> RmIdle]
    /\ lock = {}
    /\ wlog = {}
    /\ LU_new = NoCand /\ rounds = 0 /\ ret = NoRet /\ by = "none"
    /\ emitted = <<>> /\ cand0 = NoCand /\ info = 0

\* What a step of a worker leaves alone whatever it does.
rest == <<LU_new, rounds, ret, by, emitted, cand0, info, before, thrs>>

\* "magma_int_t i=LU->row[r]; lasti=i; nexti=LU->list[i];"
rm_start(r) ==
    /\ pc = "rm_thrs" /\ wk[r].pc = "start"
    /\ wk' = [wk EXCEPT ![r] = [pc |-> "test", i |-> LU.row[r],
                                lasti |-> LU.row[r],
                                nexti |-> LU.list[LU.row[r]]]]
    /\ UNCHANGED <<LU, rm_loc, num_rm, count_rm, lock, wlog, pc>>
    /\ UNCHANGED rest

\* "while( nexti!=0 ){ if( |LU->val[ i ]| < |*thrs| ){ LU->val[ i ] = 0;
\* LU->list[ i ] = -1; .. } else { lasti = i; i = nexti; nexti = .. } }"
rm_test(r) ==
    /\ pc = "rm_thrs" /\ wk[r].pc = "test"
    /\ LET i == wk[r].i
           nexti == wk[r].nexti
       IN IF nexti = 0
          THEN /\ wk' = [wk EXCEPT ![r].pc = "done"]
               /\ UNCHANGED <<LU, wlog>>
          ELSE IF Abs(LU.val[i]) < Abs(thrs)
          THEN /\ LU' = [LU EXCEPT !.val[i] = 0, !.list[i] = -1]
               /\ wlog' = wlog \cup {<<r, "val", i, 0>>, <<r, "list", i, -1>>}
               /\ wk' = [wk EXCEPT ![r].pc = "lock"]
          ELSE /\ wk' = [wk EXCEPT ![r] = [pc |-> "test", i |-> nexti,
                                           lasti |-> i,
                                           nexti |-> LU.list[nexti]]]
               /\ UNCHANGED <<LU, wlog>>
    /\ UNCHANGED <<rm_loc, num_rm, count_rm, lock, pc>>
    /\ UNCHANGED rest

\* counter_free that never makes a worker wait
counter_free_always(lk) == TRUE

\* omp_set_lock(&(counter)) returns when no worker holds the lock.
counter_free(lk) == \A r \in Rows : <<"counter", r>> \notin lk

rm_set_lock(r) ==
    /\ pc = "rm_thrs" /\ wk[r].pc = "lock"
    /\ counter_free(lock)
    /\ lock' = lock \cup {<<"counter", r>>}
    /\ wk' = [wk EXCEPT ![r].pc = "store"]
    /\ UNCHANGED <<LU, rm_loc, num_rm, count_rm, wlog, pc>>
    /\ UNCHANGED rest

\* "rm_loc[ count_rm ] = i;"
rm_store(r) ==
    /\ pc = "rm_thrs" /\ wk[r].pc = "store"
    /\ rm_loc' = [rm_loc EXCEPT ![count_rm] = wk[r].i]
    /\ wk' = [wk EXCEPT ![r].pc = "inc"]
    /\ UNCHANGED <<LU, num_rm, count_rm, lock, wlog, pc>>
    /\ UNCHANGED rest

\* "count_rm++; omp_unset_lock(&(counter));"
rm_inc(r) ==
    /\ pc = "rm_thrs" /\ wk[r].pc = "inc"
    /\ count_rm' = count_rm + 1
    /\ lock' = lock \ {<<"counter", r>>}
    /\ wk' = [wk EXCEPT ![r].pc = "link"]
    /\ UNCHANGED <<LU, rm_loc, num_rm, wlog, pc>>
    /\ UNCHANGED rest

\* "if( LU->row[r] == i ){ LU->row[r] = nexti; lasti=i; .. }
\*  else{ LU->list[lasti] = nexti; .. }  i = nexti; nexti = LU->list[nexti];"
rm_link(r) ==
    /\ pc = "rm_thrs" /\ wk[r].pc = "link"
    /\ LET i == wk[r].i
           lasti == wk[r].lasti
           nexti == wk[r].nexti
       IN IF LU.row[r] = i
          THEN /\ LU' = [LU EXCEPT !.row[r] = nexti]
               /\ wlog' = wlog \cup {<<r, "row", r, nexti>>}
               /\ wk' = [wk EXCEPT ![r] = [pc |-> "test", i |-> nexti,
                                           lasti |-> i,
                                           nexti |-> LU.list[nexti]]]
          ELSE /\ LU' = [LU EXCEPT !.list[lasti] = nexti]
               /\ wlog' = wlog \cup {<<r, "list", lasti, nexti>>}
               /\ wk' = [wk EXCEPT ![r] = [pc |-> "test", i |-> nexti,
                                           lasti |-> lasti,
                                           nexti |-> LU'.list[nexti]]]
    /\ UNCHANGED <<rm_loc, num_rm, count_rm, lock, pc>>
    /\ UNCHANGED rest

\* The end of the parallel for: "*num_rm = count_rm;"
rm_return ==
    /\ pc = "rm_thrs"
    /\ \A r \in Rows : wk[r].pc = "done"
    /\ num_rm' = count_rm
    /\ pc' = "rm_done"
    /\ UNCHANGED <<LU, rm_loc, count_rm, lock, wlog, wk>>
    /\ UNCHANGED rest

NextRm ==
    \/ \E r \in Rows :
          \/ rm_start(r)
          \/ rm_test(r)
          \/ rm_set_lock(r)
          \/ rm_store(r)
          \/ rm_inc(r)
          \/ rm_link(r)
    \/ rm_return

SpecRm == InitRm /\ [][NextRm]_vars

\* What a step of the sweep leaves alone whatever it does.
rest_sw == <<LU_new, rounds, ret, by, emitted, cand0, info, before, thrs,
             rm_loc, num_rm, count_rm, lock>>

\* What a step of the calls of insert leaves alone whatever it does.
rest_ins == <<LU_new, rounds, ret, by, emitted, cand0, info, before, thrs,
              rm_loc, num_rm, count_rm>>

\* ===================================== magma_zmdynamicic_insert, step by step
\* The loop of insert run by InsWorkers callers at a time on one factor,
\* which is what the row locks are taken for.  Each call has num_rm = 1, a
\* freed slot of its own in rm_loc[0] and two candidates of residual 0 (the
\* ranking of lines 93-94 then moves nothing).  wk.w[w] holds the locals of
\* call w, wk.lu0 the factor at the calls; lock holds <<"row", r, w>> while
\* w has rowlock[r]; wlog takes <<w, array, index, held>> for every read
\* of a row head and every store, held telling whether w had the lock.
Workers == 1..InsWorkers
InsStart(loc, cand) ==
    [pc |-> "read", i |-> 0, num_insert |-> 0, loc |-> 0, new_row |-> 0,
     new_col |-> 0, old_rowstart |-> 0, j |-> 0, jn |-> 0,
     rm_loc |-> <<loc>>, cand |-> cand]

\* The slots a removal with threshold t frees in m, row after row.
RECURSIVE Concat(_, _)
Concat(outs, r) == IF r = N THEN <<>> ELSE outs[r] \o Concat(outs, r + 1)

InitIns ==
    /\ \E P \in SUBSET LowerPos : \E off \in [P -> OffVals] : \E d \in DiagVals :
          \E t \in Thresholds :
            LET res == rm_thrs_rows(Build(P, off, d), 0, t, [r \in Rows |-> <<>>])
                freed == Concat(res.outs, 0)
            IN /\ Len(freed) >= InsWorkers
               /\ LU = res.m
               /\ \E ps \in [Workers -> LowerPos \X LowerPos] :
                     wk = [lu0 |-> res.m,
                           w |-> [w \in Workers |->
                                InsStart(freed[w],
                                    [nnz |-> 2,
                                     rowidx |-> <<ps[w][1][1], ps[w][2][1]>>,
                                     col |-> <<ps[w][1][2], ps[w][2][2]>>,
                                     val |-> <<0, 0>>])]]
    /\ pc = "insert"
    /\ lock = {} /\ wlog = {} /\ count_rm = 0
    /\ rm_loc = [k \in Slots |-> 0] /\ num_rm = 0 /\ thrs = 0 /\ before = 0
    /\ LU_new = NoCand /\ rounds = 0 /\ ret = NoRet /\ by = "none"
    /\ emitted = <<>> /\ cand0 = NoCand /\ info = 0

\* "while( num_insert < num_rm ) { if(i>=LU_new->nnz) break; loc = ..;
\* new_row = ..; new_col = ..; old_rowstart = LU->row[ new_row ];"
ins_read(w) ==
    /\ pc = "insert" /\ wk.w[w].pc = "read"
    /\ LET l == wk.w[w]
       IN IF ~(l.num_insert < 1) \/ l.i >= l.cand.nnz
          THEN /\ wk' = [wk EXCEPT !.w[w].pc = "done"]
               /\ UNCHANGED wlog
          ELSE LET new_row == l.cand.rowidx[l.i + 1]
               IN /\ wk' = [wk EXCEPT !.w[w] = [l EXCEPT
                              !.pc = "lock",
                              !.loc = l.rm_loc[l.num_insert + 1],
                              !.new_row = new_row,
                              !.new_col = l.cand.col[l.i + 1],
                              !.old_rowstart = LU.row[new_row]]]
                  /\ wlog' = wlog \cup
                        {<<w, "row", new_row, <<"row", new_row, w>> \in lock>>}
    /\ UNCHANGED <<LU, lock, pc>>
    /\ UNCHANGED rest_ins

\* omp_set_lock(&(rowlock[new_row])) returns when no call holds the lock.
ins_set_lock(w) ==
    /\ pc = "insert" /\ wk.w[w].pc = "lock"
    /\ \A u \in Workers : <<"row", wk.w[w].new_row, u>> \notin lock
    /\ lock' = lock \cup {<<"row", wk.w[w].new_row, w>>}
    /\ wk' = [wk EXCEPT !.w[w].pc = "locked"]
    /\ UNCHANGED <<LU, wlog, pc>>
    /\ UNCHANGED rest_ins

\* The entries of row, list and col in which two factors differ.
Stores(m, m1) ==
    {<<"row", r>> : r \in {q \in Rows : m.row[q] # m1.row[q]}}
    \cup {<<"list", x>> : x \in {y \in Slots : m.list[y] # m1.list[y]}}
    \cup {<<"col", x>> : x \in {y \in Slots : m.col[y] # m1.col[y]}}

\* The stores of a step of call w that takes the factor from m to m1.
ins_log(w, m, m1) ==
    {<<w, x[1], x[2], <<"row", wk.w[w].new_row, w>> \in lock>> :
        x \in Stores(m, m1)}

\* Lines 113-126: the link at the row start, the duplicate of the first
\* entry, or "j = old_rowstart; jn = LU->list[j];" before the walk.
ins_test(w) ==
    /\ pc = "insert" /\ wk.w[w].pc = "locked"
    /\ LET l == wk.w[w]
       IN IF l.new_col < LU.col[l.old_rowstart]
          THEN /\ LU' = insert_rowstart(LU, l.old_rowstart, l.loc, l.new_row,
                                        l.new_col)
               /\ wk' = [wk EXCEPT !.w[w] = [l EXCEPT
                             !.pc = "unlock", !.num_insert = l.num_insert + 1]]
          ELSE IF l.new_col = LU.col[l.old_rowstart]
          THEN /\ wk' = [wk EXCEPT !.w[w].pc = "unlock"]
               /\ UNCHANGED LU
          ELSE /\ wk' = [wk EXCEPT !.w[w] = [l EXCEPT
                             !.pc = "walk", !.j = l.old_rowstart,
                             !.jn = LU.list[l.old_rowstart]]]
               /\ UNCHANGED LU
    /\ wlog' = wlog \cup ins_log(w, LU, LU')
    /\ UNCHANGED <<lock, pc>>
    /\ UNCHANGED rest_ins

\* One pass through "while( j!=0 )" of lines 127-150.
ins_walk(w) ==
    /\ pc = "insert" /\ wk.w[w].pc = "walk"
    /\ LET l == wk.w[w]
       IN IF l.j = 0 \/ l.jn \notin Slots
          THEN /\ wk' = [wk EXCEPT !.w[w].pc = "unlock"]
               /\ UNCHANGED LU
          ELSE IF LU.col[l.jn] = l.new_col
          THEN /\ wk' = [wk EXCEPT !.w[w].pc = "unlock"]
               /\ UNCHANGED LU
          ELSE IF LU.col[l.jn] > l.new_col
          THEN /\ LU' = insert_splice(LU, l.j, l.jn, l.loc, l.new_row,
                                      l.new_col)
               /\ wk' = [wk EXCEPT !.w[w] = [l EXCEPT
                             !.pc = "unlock", !.num_insert = l.num_insert + 1]]
          ELSE /\ wk' = [wk EXCEPT !.w[w] = [l EXCEPT
                             !.j = l.jn, !.jn = LU.list[l.jn]]]
               /\ UNCHANGED LU
    /\ wlog' = wlog \cup ins_log(w, LU, LU')
    /\ UNCHANGED <<lock, pc>>
    /\ UNCHANGED rest_ins

\* ins_next_i that leaves the cursor where it is
ins_next_i_stay(i) == i

\* "i++;"
ins_next_i(i) == i + 1

\* "omp_unset_lock(&(rowlock[new_row])); i++;"
ins_unset_lock(w) ==
    /\ pc = "insert" /\ wk.w[w].pc = "unlock"
    /\ lock' = lock \ {<<"row", wk.w[w].new_row, w>>}
    /\ wk' = [wk EXCEPT !.w[w].pc = "read", !.w[w].i = ins_next_i(@)]
    /\ UNCHANGED <<LU, wlog, pc>>
    /\ UNCHANGED rest_ins

\* Every call has returned.
ins_return ==
    /\ pc = "insert"
    /\ \A w \in Workers : wk.w[w].pc = "done"
    /\ pc' = "insert_done"
    /\ UNCHANGED <<LU, wk, lock, wlog>>
    /\ UNCHANGED rest_ins

NextIns ==
    \/ \E w \in Workers :
          \/ ins_read(w)
          \/ ins_set_lock(w)
          \/ ins_test(w)
          \/ ins_walk(w)
          \/ ins_unset_lock(w)
    \/ ins_return

SpecIns == InitIns /\ [][NextIns]_vars

\* Every call is a thread that keeps running, and the calls having
\* returned the caller goes on.
ins_thread(w) ==
    ins_read(w) \/ ins_set_lock(w) \/ ins_test(w) \/ ins_walk(w)
    \/ ins_unset_lock(w)

SpecInsFair ==
    /\ SpecIns
    /\ \A w \in Workers : WF_vars(ins_thread(w))
    /\ WF_vars(ins_return)

\* ================================ magma_zmdynamicic_candidates_n, step by step
\* The two parallel loops of candidates_n with one worker per row and the
\* serial code between them, no allocation failing.  wk.numadd is numadd,
\* wk.count keeps what the count pass left in it, wk.w[row] is where the
\* worker of the row stands and its ladd; wlog takes <<row, "LU_new", at,
\* ladd>> for every triple written at index at.
CnStart == [pc |-> "count", ladd |-> 0]

InitCandN ==
    /\ \E P \in SUBSET LowerPos : \E off \in [P -> OffVals] : \E d \in DiagVals :
          \E t \in Thresholds :
            LU = rm_thrs_rows(Build(P, off, d), 0, t, [r \in Rows |-> <<>>]).m
    /\ wk = [numadd |-> [k \in 0..N |-> 0],
             count |-> [k \in 0..N |-> 0],
             w |-> [r \in Rows |-> CnStart]]
    /\ pc = "cand_n_count"
    /\ LU_new = [NoCand EXCEPT !.nnz = 0]
    /\ lock = {} /\ wlog = {} /\ count_rm = 0
    /\ rm_loc = [k \in Slots |-> 0] /\ num_rm = 0 /\ thrs = 0 /\ before = 0
    /\ rounds = 0 /\ ret = NoRet /\ by = "candidates_n"
    /\ emitted = <<>> /\ cand0 = NoCand /\ info = 0

\* What a step of candidates_n leaves alone whatever it does.
rest_cn == <<LU, rounds, ret, by, emitted, cand0, info, before, thrs,
             rm_loc, num_rm, count_rm, lock>>

\* The iteration of the first parallel loop for one row: numadd[ row+1 ]++
\* once for every pair found missing.
cn_count(row) ==
    /\ pc = "cand_n_count" /\ wk.w[row].pc = "count"
    /\ wk' = [wk EXCEPT !.numadd[row + 1] = @ + cand_n_count(LU, row, LU.row[row], Cap),
                        !.w[row].pc = "counted"]
    /\ UNCHANGED <<LU_new, wlog, pc>>
    /\ UNCHANGED rest_cn

\* "LU_new->nnz = 0; for i in 0..num_rows: LU_new->nnz += numadd[i];
\* numadd[i] = LU_new->nnz;" and the three allocations, whose entries hold
\* nothing yet (-1).
cn_prefix ==
    /\ pc = "cand_n_count"
    /\ \A r \in Rows : wk.w[r].pc = "counted"
    /\ LET sums == [i \in 0..N |-> SumTo(wk.numadd, i)]
       IN /\ wk' = [wk EXCEPT !.count = wk.numadd,
                              !.numadd = sums,
                              !.w = [r \in Rows |-> [pc |-> "emit", ladd |-> 0]]]
          /\ LU_new' = [nnz    |-> sums[N],
                        rowidx |-> [k \in 1..sums[N] |-> -1],
                        col    |-> [k \in 1..sums[N] |-> -1],
                        val    |-> [k \in 1..sums[N] |-> -1]]
    /\ pc' = "cand_n_emit"
    /\ UNCHANGED wlog
    /\ UNCHANGED rest_cn

\* One pass through "if( exist == 0 )" of the second parallel loop: the
\* triple is stored at numadd[row] + ladd and ladd grows by one; a store
\* outside the arrays ends the run (pc = "fault").
cn_emit(row) ==
    /\ pc = "cand_n_emit" /\ wk.w[row].pc = "emit"
    /\ LET w == cand_n_emit(LU, row, LU.row[row], Cap)
           ladd == wk.w[row].ladd
           at == wk.numadd[row] + ladd
       IN IF ladd >= Len(w)
          THEN /\ wk' = [wk EXCEPT !.w[row].pc = "done"]
               /\ UNCHANGED <<LU_new, wlog, pc>>
          ELSE /\ wk' = [wk EXCEPT !.w[row].ladd = ladd + 1]
               /\ wlog' = wlog \cup {<<row, "LU_new", at, ladd>>}
               /\ IF at \in 0..(LU_new.nnz - 1)
                  THEN /\ LU_new' = [LU_new EXCEPT
                                        !.val[at + 1] = 0,
                                        !.rowidx[at + 1] = w[ladd + 1].rowidx,
                                        !.col[at + 1] = w[ladd + 1].col]
                       /\ UNCHANGED pc
                  ELSE /\ pc' = "fault"
                       /\ UNCHANGED LU_new
    /\ UNCHANGED rest_cn

\* "cleanup: magma_free_cpu( numadd ); return info;"
cn_return ==
    /\ pc = "cand_n_emit"
    /\ \A r \in Rows : wk.w[r].pc = "done"
    /\ pc' = "cand_n_done"
    /\ UNCHANGED <<LU_new, wk, wlog>>
    /\ UNCHANGED rest_cn

NextCandN ==
    \/ \E row \in Rows : cn_count(row)
    \/ cn_prefix
    \/ \E row \in Rows : cn_emit(row)
    \/ cn_return

SpecCandN == InitCandN /\ [][NextCandN]_vars

\* ====================================== magma_zmdynamicic_sweep, step by step
\* The parallel for over the slots e, with at most SweepThreads iterations
\* under way at a time; any iteration not taken yet may be taken next.
\* wk.run holds the locals of the iterations under way, wk.todo the
\* iterations not taken yet.  Every read of a value is a step of its own,
\* so an iteration sees the values the others have stored so far.
\* Values are integers: a root and a quotient are cut to their integer
\* part; a value that is no finite real (root of a negative, division by
\* 0, or computed from such a value) is kept as 0 with its slot in wk.nan.
\* terms keeps, for every pass through "if( icol == jcol )", the column
\* and the product added to sum.
SwStart == [pc |-> "walk", e |-> 0, i |-> 0, j |-> 0, jold |-> 0, a |-> 0,
            sum |-> 0, lsum |-> 0, nan |-> FALSE, terms |-> <<>>]

zsqrt(x) == CHOOSE n \in 0..x : n * n <= x /\ (n + 1) * (n + 1) > x
zdiv(a, b) == IF (a < 0) = (b < 0) THEN Abs(a) \div Abs(b)
              ELSE -(Abs(a) \div Abs(b))

\* The factors a sweep is called on here: a factor as the removal of its
\* entries of magnitude below 2 leaves it, the freed slots still carrying
\* the rowidx and col they had.
SweepThresholds == {-2}

InitSweep ==
    /\ \E P \in SUBSET LowerPos : \E off \in [P -> OffVals] : \E d \in DiagVals :
          \E t \in SweepThresholds :
            LU = rm_thrs_rows(Build(P, off, d), 0, t, [r \in Rows |-> <<>>]).m
    /\ pc = "sweep"
    /\ wk = [todo |-> Slots, nan |-> {}, run |-> {}]
    /\ wlog = {}
    /\ lock = {} /\ count_rm = 0
    /\ rm_loc = [k \in Slots |-> 0] /\ num_rm = 0 /\ thrs = 0 /\ before = 0
    /\ LU_new = NoCand /\ rounds = 0 /\ ret = NoRet /\ by = "none"
    /\ emitted = <<>> /\ cand0 = NoCand /\ info = 0

\* sweep_live that lets every slot through
sweep_live_all(m, e) == TRUE

\* "if( LU->list[e]!=-1)"
sweep_live(m, e) == m.list[e] # -1

\* "while( i!=0 && j!=0 )" after an iteration that left i and j
sw_after(i, j) == IF i # 0 /\ j # 0 THEN "walk" ELSE "write"

\* The locals of iteration e, when it is under way.
sw_of(e) == CHOOSE w \in wk.run : w.e = e
sw_at(e, where) == \E w \in wk.run : w.e = e /\ w.pc = where
sw_set(e, w) == [wk EXCEPT !.run = (@ \ {sw_of(e)}) \cup {w}]

\* Iteration e is taken: a freed slot ends it at once, any other starts
\* the walk with "i = LU->row[ row ]; j = LU->row[ col ];".
sw_take(e) ==
    /\ pc = "sweep" /\ e \in wk.todo
    /\ Cardinality(wk.run) < SweepThreads
    /\ IF sweep_live(LU, e)
       THEN wk' = [wk EXCEPT !.todo = @ \ {e},
                             !.run = @ \cup {[SwStart EXCEPT
                                !.e = e,
                                !.i = LU.row[LU.rowidx[e]],
                                !.j = LU.row[LU.col[e]]]}]
       ELSE wk' = [wk EXCEPT !.todo = @ \ {e}]
    /\ UNCHANGED <<LU, wlog, pc>>
    /\ UNCHANGED rest_sw

\* The head of an iteration of the do-while: "lsum = 0; jold = j;" and the
\* comparison of the columns; on equal columns LU->val[i] is read.
sw_walk(e) ==
    /\ pc = "sweep" /\ sw_at(e, "walk")
    /\ LET w == sw_of(e)
           icol == LU.col[w.i]
           jcol == LU.col[w.j]
       IN IF icol = jcol
          THEN wk' = sw_set(e, [w EXCEPT
                        !.pc = "mul", !.jold = w.j, !.lsum = 0,
                        !.a = LU.val[w.i],
                        !.nan = w.nan \/ w.i \in wk.nan])
          ELSE IF icol < jcol
          THEN wk' = sw_set(e, [w EXCEPT
                        !.pc = sw_after(LU.list[w.i], w.j),
                        !.jold = w.j, !.lsum = 0, !.i = LU.list[w.i]])
          ELSE wk' = sw_set(e, [w EXCEPT
                        !.pc = sw_after(w.i, LU.list[w.j]),
                        !.jold = w.j, !.lsum = 0, !.j = LU.list[w.j]])
    /\ UNCHANGED <<LU, wlog, pc>>
    /\ UNCHANGED rest_sw

\* "lsum = LU->val[i] * LU->val[j]; sum = sum + lsum; i = LU->list[i];
\* j = LU->list[j];" with LU->val[j] read now.
sw_mul(e) ==
    /\ pc = "sweep" /\ sw_at(e, "mul")
    /\ LET w == sw_of(e)
       IN wk' = sw_set(e, [w EXCEPT
                    !.pc = sw_after(LU.list[w.i], LU.list[w.j]),
                    !.lsum = w.a * LU.val[w.j],
                    !.sum = w.sum + w.a * LU.val[w.j],
                    !.terms = Append(w.terms, [col |-> LU.col[w.i],
                                               p |-> w.a * LU.val[w.j]]),
                    !.nan = w.nan \/ w.j \in wk.nan,
                    !.i = LU.list[w.i], !.j = LU.list[w.j]])
    /\ UNCHANGED <<LU, wlog, pc>>
    /\ UNCHANGED rest_sw

\* sw_final that keeps the last product in the sum
sw_final_keep(sum, lsum) == sum

\* "sum = sum - lsum;"
sw_final(sum, lsum) == sum - lsum

\* "sum = sum - lsum;" and the store to LU->val[ e ]: the root of A_e - sum
\* on the diagonal, ( A_e - sum ) / LU->val[jold] off it.  The store goes
\* to wlog with the number of stores the slot had before.
sw_write(e) ==
    /\ pc = "sweep" /\ sw_at(e, "write")
    /\ LET w == sw_of(e)
           row == LU.rowidx[e]
           col == LU.col[e]
           x == A_e(row, col) - sw_final(w.sum, w.lsum)
           ok == IF row = col THEN ~w.nan /\ x >= 0
                 ELSE ~w.nan /\ w.jold \notin wk.nan /\ LU.val[w.jold] # 0
           v == IF ~ok THEN 0
                ELSE IF row = col THEN zsqrt(x) ELSE zdiv(x, LU.val[w.jold])
       IN /\ LU' = [LU EXCEPT !.val[e] = v]
          /\ wk' = [wk EXCEPT !.run = @ \ {w},
                              !.nan = IF ok THEN @ \ {e} ELSE @ \cup {e}]
          /\ wlog' = wlog \cup
                {<<e, "val", e, Cardinality({f \in wlog : f[3] = e})>>}
    /\ UNCHANGED pc
    /\ UNCHANGED rest_sw

\* The end of the parallel for, "return info;"
sw_return ==
    /\ pc = "sweep"
    /\ wk.todo = {} /\ wk.run = {}
    /\ pc' = "sweep_done"
    /\ UNCHANGED <<LU, wk, wlog>>
    /\ UNCHANGED rest_sw

NextSweep ==
    \/ \E e \in Slots :
          \/ sw_take(e)
          \/ sw_walk(e)
          \/ sw_mul(e)
          \/ sw_write(e)
    \/ sw_return

SpecSweep == InitSweep /\ [][NextSweep]_vars

\* ================================================================== claims
ColsOf(m, r) == [k \in 1..Len(Chain(m, r)) |-> m.col[Chain(m, r)[k]]]
Increasing(cs) == \A k \in 1..(Len(cs) - 1) : cs[k] < cs[k + 1]
DiagBelow(m, t) == \E s \in Live(m) : m.col[s] = m.rowidx[s] /\ Abs(m.val[s]) < Abs(t)

C2_DiagonalLast ==
    \A r \in Rows :
        /\ Len(Chain(LU, r)) >= 1
        /\ LU.col[Chain(LU, r)[Len(Chain(LU, r))]] = r
        /\ LU.list[Chain(LU, r)[Len(Chain(LU, r))]] = 0
        /\ \E s \in SeqSet(Chain(LU, r)) : LU.col[s] = r

\* A removal whose threshold lies above the magnitude of a diagonal entry,
\* followed by an insert that linked an element.
C2_Witness ==
    /\ pc = "idle" /\ ret.called /\ ret.num_insert >= 1
    /\ DiagBelow(LU, thrs)

\* C3: from every row head the terminator 0 is reached within nnz hops, and
\* no slot on the way is a freed slot or a slot of another row.
C3_ChainsEnd ==
    \A r \in Rows :
        /\ EndsAtZero(LU, LU.row[r], Cap)
        /\ \A s \in SeqSet(Chain(LU, r)) : LU.list[s] # -1 /\ LU.rowidx[s] = r

\* A freed slot linked again as the head of a row of three entries.
C3_Witness ==
    /\ pc = "idle" /\ ret.called
    /\ \E s \in SeqSet(ret.locs) : \E r \in Rows :
          LU.row[r] = s /\ Len(Chain(LU, r)) = 3

\* C4: linked slots and free slots partition the slots 1..cap-1: no slot is
\* both, none but slot 0 is neither, and their numbers add up to cap - 1.
C4_SlotAccounting ==
    /\ Live(LU) \cap Free(LU) = {}
    /\ Live(LU) \cup Free(LU) = Slots \ {0}
    /\ Cardinality(Live(LU)) + Cardinality(Free(LU)) = Cap - 1

\* A round that freed more slots than its insert linked again.
C4_Witness ==
    /\ pc = "idle" /\ ret.called /\ ret.num_insert >= 1 /\ num_rm > ret.num_insert
    /\ \E k \in 0..(num_rm - 1) : rm_loc[k] \in Free(LU)

C6_ThresholdRemoval ==
    pc = "rm" =>
        \A s \in Live(LU) :
            LU.col[s] # LU.rowidx[s] => Abs(LU.val[s]) >= Abs(thrs)

\* A removal that unlinked the head of a row and the entry behind it, one
\* after the other, leaving the diagonal alone in the row.
C6_Witness ==
    /\ pc = "rm"
    /\ \E a \in 0..(num_rm - 1) : \E b \in 0..(num_rm - 1) :
          /\ a # b
          /\ LU.rowidx[rm_loc[a]] = LU.rowidx[rm_loc[b]]
          /\ Len(Chain(LU, LU.rowidx[rm_loc[a]])) = 1

\* C7: every position written by a candidate search is absent from the
\* factor, when it is written and until insert runs (residuals and rm_thrs
\* in between link nothing).
C7_CandidatesAbsent ==
    pc \in {"cand", "res", "rm", "fault"} =>
        \A x \in 1..Len(emitted) : ~Has(LU, emitted[x].rowidx, emitted[x].col)

\* A search that wrote a candidate, followed by a removal that unlinked
\* entries, insert being next.
C7_Witness ==
    /\ pc = "rm" /\ Len(emitted) >= 1 /\ num_rm >= 1

\* C8: every candidate written by a search lies strictly below the
\* diagonal, and neither of its indices is the row that was searched: the
\* diagonal entry of that row is in no pair.
C8_StrictlyLower ==
    \A x \in 1..Len(emitted) :
        /\ emitted[x].rowidx > emitted[x].col
        /\ emitted[x].from # emitted[x].rowidx
        /\ emitted[x].from # emitted[x].col

\* candidates_n has written a candidate from a row of three entries.
C8_Witness ==
    /\ pc = "cand" /\ by = "candidates_n" /\ Len(emitted) >= 1
    /\ \E r \in Rows : Len(Chain(LU, r)) = 3

\* The positions (r,c), r > c, absent from the factor, with a column k < c
\* such that L[r,k] and L[c,k] are entries.
FillPositions(m) ==
    {p \in LowerPos :
        /\ ~Has(m, p[1], p[2])
        /\ \E k \in Rows : k < p[2] /\ Has(m, p[1], k) /\ Has(m, p[2], k)}

\* C9: the positions written by candidates_n are exactly the absent
\* positions (r,c), r > c, that have a column k < c < r with L[r,k] and
\* L[c,k] both entries of the factor.
C9_CandidateSet ==
    (pc = "cand" /\ by = "candidates_n") =>
        {<<emitted[x].rowidx, emitted[x].col>> : x \in 1..Len(emitted)}
            = FillPositions(LU)

\* C10: after the ranking step of insert the first num_rm candidates are the
\* num_rm of largest residual magnitude, each (rowidx, col) still paired
\* with the residual computed for that position.
C10_RankingKeepsPairs ==
    (pc = "idle" /\ ret.called /\ ~ret.skipped) =>
        /\ \A a \in 1..LU_new.nnz : \A b \in 1..LU_new.nnz :
              (a <= num_rm /\ num_rm < b) =>
                  Abs(LU_new.val[a]) >= Abs(LU_new.val[b])
        /\ \A k \in 1..num_rm :
              \E x \in 1..cand0.nnz :
                  /\ cand0.rowidx[x] = LU_new.rowidx[k]
                  /\ cand0.col[x] = LU_new.col[k]
                  /\ cand0.val[x] = LU_new.val[k]

\* The position of the candidate the loop of insert took as its k-th.
StepPos(k) == <<cand0.rowidx[k], cand0.col[k]>>

\* C11: a candidate whose column is already in its row, at the head or
\* further along the chain, is skipped: the factor is left as it was and the
\* next candidate is offered the same entry of rm_loc.  Of two candidates
\* naming one absent position, the first is linked, the second is not, and
\* one slot of rm_loc holds the position afterwards.
C11_DuplicatesSkipped ==
    (pc = "idle" /\ ret.called /\ ~ret.skipped) =>
        /\ \A k \in 1..Len(ret.steps) :
              ret.steps[k].had =>
                  /\ ret.steps[k].ins = 0
                  /\ ret.steps[k].same
                  /\ k < Len(ret.steps) =>
                        /\ ret.steps[k + 1].at = ret.steps[k].at
                        /\ ret.steps[k + 1].loc = ret.steps[k].loc
        /\ \A a \in 1..Len(ret.steps) : \A b \in 1..cand0.nnz :
              (a < b /\ StepPos(a) = StepPos(b) /\ ~ret.steps[a].had) =>
                  /\ ret.steps[a].ins = 1
                  /\ b <= Len(ret.steps) =>
                        ret.steps[b].ins = 0 /\ ret.steps[b].had
                  /\ Cardinality({x \in 1..Len(ret.locs) :
                        <<LU.rowidx[ret.locs[x]], LU.col[ret.locs[x]]>>
                            = StepPos(a)}) = 1

\* A position listed twice and absent: the first is linked behind the head
\* of its row, the second is found in the chain and skipped, and the third
\* candidate is linked into the slot the second was offered.
C11_Witness ==
    /\ pc = "idle" /\ ret.called /\ Len(ret.steps) = 3
    /\ StepPos(1) = StepPos(2)
    /\ ret.steps[1].ins = 1 /\ ret.steps[2].ins = 0 /\ ret.steps[3].ins = 1
    /\ ret.steps[3].loc = ret.steps[2].loc
    /\ LU.row[cand0.rowidx[1]] # ret.steps[1].loc

\* C12: a call of insert with num_rm greater than LU_new->nnz returns 0 and
\* leaves row, list, rowidx, col and val of the factor and the candidate
\* set as they were.
C12_SkipLeavesAll ==
    [][(pc = "rm" /\ num_rm > LU_new.nnz) =>
          /\ ret'.called /\ ret'.info = 0
          /\ LU' = LU
          /\ LU_new' = LU_new]_vars

\* insert has returned from a call with two freed slots and one candidate.
C12_Witness ==
    /\ pc = "idle" /\ ret.called /\ ret.skipped
    /\ num_rm = 2 /\ cand0.nnz = 1

\* The candidates handed to insert name pairwise different positions, none
\* of them in the factor at the call: a position in the factor now was
\* linked by this call when its slot is one the removal had freed.
DistinctAbsent ==
    /\ \A a \in 1..cand0.nnz : \A b \in 1..cand0.nnz :
          StepPos(a) = StepPos(b) => a = b
    /\ \A a \in 1..cand0.nnz :
          \A s \in SeqSet(Chain(LU, cand0.rowidx[a])) :
              LU.col[s] = cand0.col[a] =>
                  \E k \in 0..(num_rm - 1) : rm_loc[k] = s

\* C13: insert grafts whenever num_rm <= LU_new->nnz, the boundary
\* num_rm = LU_new->nnz included: with exactly num_rm candidates at
\* different absent positions all of them are linked and every freed slot
\* is used.
C13_BoundaryGrafts ==
    (pc = "idle" /\ ret.called /\ num_rm = cand0.nnz /\ DistinctAbsent) =>
        /\ ret.num_insert = num_rm
        /\ \A k \in 0..(num_rm - 1) : rm_loc[k] \in Live(LU)

C15_ReadOnlyKernels ==
    [][/\ (pc = "idle" /\ by' = "candidates_n" /\ pc' # "idle") => LU' = LU
       /\ pc = "cand" =>
            /\ LU' = LU
            /\ LU_new'.nnz = LU_new.nnz
            /\ LU_new'.rowidx = LU_new.rowidx
            /\ LU_new'.col = LU_new.col]_vars

\* residuals has written a residual other than 0 for a candidate found by
\* candidates_n, in the second round.
C15_Witness ==
    /\ pc = "res" /\ by = "candidates_n" /\ rounds = 1
    /\ \E e \in 1..LU_new.nnz : LU_new.val[e] # 0

\* C19: slot 0 stays the terminator through every sequence of kernels:
\* rm_thrs neither frees it nor records it in rm_loc, insert neither takes
\* it as a target nor changes its list, col, rowidx or val.
C19_SlotZeroReserved ==
    /\ LU.list[0] = 0 /\ LU.col[0] = 0 /\ LU.rowidx[0] = 0 /\ LU.val[0] = 0
    /\ 0 \notin Live(LU) /\ 0 \notin Free(LU)
    /\ \A k \in 0..(num_rm - 1) : rm_loc[k] # 0
    /\ \A k \in 1..Len(ret.steps) : ret.steps[k].loc # 0
    /\ \A k \in 1..Len(ret.locs) : ret.locs[k] # 0

\* The second round is over: its removal emptied a row down to the
\* diagonal and its insert linked a candidate at the head of a row.
C19_Witness ==
    /\ pc = "idle" /\ rounds = 2 /\ ret.called /\ num_rm >= 2
    /\ \E r \in Rows : Len(Chain(LU, r)) = 1
    /\ \E k \in 1..Len(ret.locs) : \E r \in Rows : LU.row[r] = ret.locs[k]

\* C17: a kernel call that returns a result code other than 0 (a failed
\* allocation in a candidate search after the count pass, a failed selector
\* in insert or set_thrs) leaves the factor and the candidate set exactly
\* as they were before the call.
C17_NoPartialMutation ==
    [][info' # 0 => (LU' = LU /\ LU_new' = LU_new)]_vars

\* The slots the workers of rm_thrs unlinked, by their stores list[s] = -1.
Unlinked == {e[3] : e \in {f \in wlog : f[2] = "list" /\ f[4] = -1}}

\* C20: whatever the interleaving of the row workers of rm_thrs, on return
\* *num_rm is the number of slots unlinked and rm_loc[0..*num_rm) lists
\* exactly those slots, each once, each with val = 0 and list = -1; and
\* workers of different rows never store to the same entry of row, list or
\* val.
C20_AppendsKept ==
    /\ \A e \in wlog : \A f \in wlog :
          (e[2] = f[2] /\ e[3] = f[3]) => e[1] = f[1]
    /\ pc = "rm_done" =>
          /\ num_rm = Cardinality(Unlinked)
          /\ num_rm = before - LiveCount(LU)
          /\ {rm_loc[k] : k \in 0..(num_rm - 1)} = Unlinked
          /\ \A a \in 0..(num_rm - 1) : \A b \in 0..(num_rm - 1) :
                rm_loc[a] = rm_loc[b] => a = b
          /\ \A k \in 0..(num_rm - 1) :
                LU.val[rm_loc[k]] = 0 /\ LU.list[rm_loc[k]] = -1

\* rm_thrs has returned with three slots recorded, the worker of a later
\* row having taken the counter lock between two appends of an earlier row.
C20_Witness ==
    /\ pc = "rm_done" /\ num_rm = 3
    /\ LU.rowidx[rm_loc[0]] = LU.rowidx[rm_loc[2]]
    /\ LU.rowidx[rm_loc[1]] < LU.rowidx[rm_loc[0]]

\* C16: in a sweep the value of a slot is stored by one task only, the task
\* of index e storing to val[e] and nowhere else; no step changes row, list,
\* rowidx or col, nor the value of a freed slot (list[e] = -1), so the
\* pattern and the free pool after the sweep are those before it whatever
\* the interleaving.
C16_SweepFrame ==
    /\ [](\A f \in wlog :
            /\ f[1] = f[3] /\ f[2] = "val" /\ f[4] = 0
            /\ LU.list[f[3]] # -1)
    /\ [](pc = "sweep_done" =>
            {f[3] : f \in wlog} = {s \in Slots : LU.list[s] # -1})
    /\ [][/\ LU'.row = LU.row /\ LU'.list = LU.list
          /\ LU'.rowidx = LU.rowidx /\ LU'.col = LU.col
          /\ \A s \in Slots : LU.list[s] = -1 => LU'.val[s] = LU.val[s]
          /\ Live(LU') = Live(LU) /\ Free(LU') = Free(LU)]_vars

\* A sweep has returned from a factor with two freed slots, having changed
\* the value of an entry off the diagonal.
C16_Witness ==
    /\ pc = "sweep_done"
    /\ Cardinality({s \in Free(LU) : LU.rowidx[s] # LU.col[s]}) = 2
    /\ \E s \in Live(LU) : LU.rowidx[s] # LU.col[s] /\ LU.val[s] \notin OffVals

\* The factor the calls of insert leave when they run one after the other
\* in the order given.
RECURSIVE Serial(_, _)
Serial(m, order) ==
    IF order = <<>> THEN m
    ELSE LET l == wk.w[Head(order)]
         IN Serial(insert_while(l.cand, [k \in 0..0 |-> l.rm_loc[1]], 1,
                       [m |-> m, i |-> 0, num_insert |-> 0, locs |-> <<>>,
                        steps |-> <<>>]).m,
                   Tail(order))

\* Every read of a row head and every store to row, list or col is made
\* with the lock of the row held.
HeldAtAccess == \A f \in wlog : f[4]

\* The factor left by the calls is the one some order of them leaves.
NoneLost ==
    pc = "insert_done" =>
        \E f \in [1..InsWorkers -> Workers] :
            /\ \A a \in Workers : \A b \in Workers : f[a] = f[b] => a = b
            /\ LU = Serial(wk.lu0, f)

\* C18: in insert every read and store of row[new_row] and of list and col
\* of the chain of that row made for a candidate happens with
\* rowlock[new_row] held, the lock being taken before the row head is read
\* and released after the splice or skip; so the insertions of concurrent
\* workers into one row leave what some serial order of them leaves and
\* none is lost.
C18_RowLockHeld == HeldAtAccess /\ NoneLost

\* The offsets a prefix sum taken in row order leaves in numadd.
SerialNumadd(m) ==
    [k \in 0..N |-> SumTo([j \in Rows |-> cand_count(m, j)], k - 1)]

\* C21: whatever the order in which the iterations of the accumulation
\* loop of candidates take the counter lock, numadd and LU_new->nnz come
\* out as a prefix sum in row order leaves them, so the emit pass writes
\* the candidates of each row into a region of its own inside LU_new.
C21_SerialPrefixSum ==
    (by = "candidates" /\ info = 0 /\ pc \in {"cand", "fault"}) =>
        /\ LU_new.nnz = cand_nnz(LU)
        /\ emitted = cand_writes(LU, SerialNumadd(LU), 0)
        /\ Written(emitted, LU_new.nnz)

\* The indices the worker of a row has written so far.
WrittenBy(row) == {f \in wlog : f[1] = row /\ f[2] = "LU_new"}

DiagSlot(m, r) == CHOOSE s \in SeqSet(Chain(m, r)) : m.col[s] = r
RECURSIVE SumP(_, _)
SumP(ts, n) == IF n = 0 THEN 0 ELSE ts[n].p + SumP(ts, n - 1)

\* C23: when the iteration of a live slot e at (r,c), c < r, stores its
\* value, its walk of rows r and c has ended right after the match of
\* column c (j = 0, i the successor of e), jold is the diagonal slot of row
\* c, the columns matched are those present in both rows, each once, the
\* last being c; with the last product taken off, the sum is that of the
\* products of the columns k < c, and the value stored is A[r,c] less that
\* sum, divided by val[jold].
C23_SweepOffDiagonal ==
    [][\A e \in Slots :
         (/\ pc = "sweep" /\ sw_at(e, "write")
          /\ LU.rowidx[e] # LU.col[e]
          /\ \E f \in wlog' \ wlog : f[1] = e)
         => LET w == sw_of(e)
                r == LU.rowidx[e]
                c == LU.col[e]
                d == DiagSlot(LU, c)
                n == Len(w.terms)
            IN /\ w.jold = d /\ LU.list[d] = 0 /\ LU.rowidx[d] = c
               /\ w.j = 0 /\ w.i = LU.list[e]
               /\ n >= 1 /\ w.terms[n].col = c /\ w.lsum = w.terms[n].p
               /\ \A k \in 1..(n - 1) : w.terms[k].col < w.terms[k + 1].col
               /\ {w.terms[k].col : k \in 1..n}
                     = {k \in 0..c : Has(LU, r, k) /\ Has(LU, c, k)}
               /\ w.sum = SumP(w.terms, n)
               /\ e \notin wk'.nan =>
                     LU'.val[e] = zdiv(A_e(r, c) - SumP(w.terms, n - 1),
                                       LU.val[d])]_vars

\* The walk for the entry (2,1) has ended with two matches, column 0 and
\* column 1, and the store is next.
C23_Witness ==
    /\ pc = "sweep"
    /\ \E w \in wk.run :
          /\ w.pc = "write" /\ LU.rowidx[w.e] = 2 /\ LU.col[w.e] = 1
          /\ Len(w.terms) = 2 /\ w.terms[1].p # 0 /\ ~w.nan

ValAt(m, r, k) == m.val[CHOOSE s \in SeqSet(Chain(m, r)) : m.col[s] = k]
CommonCols(m, r, c) == {k \in Rows : Has(m, r, k) /\ Has(m, c, k)}
RECURSIVE SumOver(_, _, _, _)
SumOver(m, r, c, K) ==
    IF K = {} THEN 0
    ELSE LET k == CHOOSE x \in K : TRUE
         IN ValAt(m, r, k) * ValAt(m, c, k) + SumOver(m, r, c, K \ {k})

\* C25: residuals leaves in LU_new->val[e], for the candidate e at
\* (row, col), A[row,col] (0 where A has no entry) less the sum of
\* L[row,k] * L[col,k] over the columns k that both row chains of the
\* factor hold, each taken once and no other product added.
C25_ResidualValue ==
    pc = "res" =>
        \A e \in 1..LU_new.nnz :
            LET r == LU_new.rowidx[e]
                c == LU_new.col[e]
            IN LU_new.val[e] =
                  A_e(r, c) - SumOver(LU, r, c, CommonCols(LU, r, c))

\* Residuals were taken for a candidate whose rows share two columns, the
\* sum of the two products not being 0.
C25_Witness ==
    /\ pc = "res"
    /\ \E e \in 1..LU_new.nnz :
          LET r == LU_new.rowidx[e]
              c == LU_new.col[e]
          IN /\ Cardinality(CommonCols(LU, r, c)) = 2
             /\ LU_new.val[e] # A_e(r, c)

\* The slots a call of insert may take: the first num_rm entries of rm_loc.
Listed == {rm_loc[k] : k \in 0..(num_rm - 1)}

\* C26: insert links into slots freed by the removal of its own round
\* only.  A removal lists the slots it frees itself, from index 0 of
\* rm_loc, and none that was free before the call; only insert takes a
\* slot out of the free pool, and only a listed one; so a slot left free
\* when its round ends is in no later list and stays free, with
\* list = -1 and val = 0, ever after.
C26_StaleSlotsStayFree ==
    /\ [](\A s \in Slots : LU.list[s] = -1 => LU.val[s] = 0)
    /\ [](pc = "rm" => \A s \in Listed : LU.list[s] = -1)
    /\ [][\A s \in Slots : LU.list[s] = -1 =>
            /\ pc' = "rm" => s \notin Listed'
            /\ LU'.list[s] # -1 =>
                  /\ pc = "rm" /\ ret'.called
                  /\ s \in Listed
                  /\ s \in SeqSet(ret'.locs)]_vars

\* The insertion of the second round has linked a candidate while a slot
\* freed by the removal of the first round, not in the list of the second,
\* is still free.
C26_Witness ==
    /\ pc = "idle" /\ rounds = 2 /\ ret.called /\ ret.num_insert >= 1
    /\ \E s \in Slots :
          /\ LU.list[s] = -1 /\ LU.val[s] = 0
          /\ LU.rowidx[s] # LU.col[s]
          /\ s \notin Listed

====
